---------------------------- MODULE Spec2Model ----------------------------
(***************************************************************************)
(* A state-machine model of the discord-blooper bot (src/bot/index.js):    *)
(* the interactionCreate handler, the Build Engine (buildFromTemplate),    *)
(* the Edit Engine (runEditCommand) and the JSON state file they share.    *)
(*                                                                         *)
(* One action is one resumption of an async function: the response of the  *)
(* awaited remote call together with the synchronous code that follows it  *)
(* up to the next await.  pc[p] names the remote call handler p awaits.    *)
(***************************************************************************)
EXTENDS Integers, Sequences, FiniteSets, TLC

\* Number of interactions the bot receives in one behaviour.
MaxRuns == 2

\* Handlers that may be in flight; Spec runs them one after the other.
ProcIds == {1, 2}
SeqProcs == {1}

VARIABLES
  file,      \* data/guild_state.json: [status, doc]
  runs,      \* interactions received so far
  pc,        \* per handler: the await it is suspended at ("idle": none)
  inter,     \* per handler: the interaction being handled
  runNo,     \* per handler: serial number of its interaction
  state,     \* per handler: buildFromTemplate's local `state` object
  loaded,    \* per handler: the document readGuildState returned
  pos,       \* per handler: loop positions [r, c, h, m]
  category,  \* per handler: id of the category being filled
  nid,       \* per handler: resources the platform created for this run
  calls,     \* per handler: remote calls issued by the engine in this run
  replies,   \* per handler: responses sent to the invoking user
  err,       \* per handler: message of the exception caught (or in flight)
  result,    \* per handler: value returned by the engine
  pend,      \* per handler: the edit mutation call in flight
  remote,    \* categories and channels the platform created for the bot
  escaped,   \* per handler: an exception left the handler
  rawName,   \* normalizeChannelName: the name it is applied to, as characters
  normalized,\* normalizeChannelName: the value it returned last
  applied    \* normalizeChannelName: how often it has been applied

botVars == <<file, runs, pc, inter, runNo, state, loaded, pos, category, nid,
             calls, replies, err, result, pend, remote, escaped>>

normalizerVars == <<rawName, normalized, applied>>

vars == <<botVars, normalizerVars>>

-----------------------------------------------------------------------------
(* Values *)

Guilds == {"g1", "g2"}

\* Remote ids are <<run, n>>: the n-th resource created for interaction `run`.
\* Run 0 holds the resources that exist before the bot acts.
NoId == <<0, 0>>
EmptyMap == <<>>
EmptyGuildState == [roles |-> EmptyMap, categories |-> EmptyMap, channels |-> EmptyMap]

Put(f, k, v) == [x \in (DOMAIN f) \cup {k} |-> IF x = k THEN v ELSE f[x]]

Max(a, b) == IF a >= b THEN a ELSE b

RECURSIVE Join(_, _)
Join(toks, sep) ==
  IF Len(toks) = 0 THEN ""
  ELSE IF Len(toks) = 1 THEN toks[1]
  ELSE toks[1] \o sep \o Join(Tail(toks), sep)

\* String.prototype.toLowerCase over the vocabulary of the inputs.
LowerTable ==
  [x \in {"CHANGE", "ROLE", "COLOR", "TO", "UNLOCK", "Mod", "Admin", "Owner",
          "Ghost", "General", "News", "INFO", "Lounge", "Main", "Chat",
          "Trading", "Hub", "About", "Us", "Boss"} |->
     CASE x = "CHANGE" -> "change" [] x = "ROLE" -> "role" [] x = "COLOR" -> "color"
       [] x = "TO" -> "to" [] x = "UNLOCK" -> "unlock" [] x = "Mod" -> "mod"
       [] x = "Admin" -> "admin" [] x = "Owner" -> "owner" [] x = "Ghost" -> "ghost"
       [] x = "General" -> "general" [] x = "News" -> "news" [] x = "INFO" -> "info"
       [] x = "Lounge" -> "lounge" [] x = "Main" -> "main" [] x = "Chat" -> "chat"
       [] x = "Trading" -> "trading" [] x = "Hub" -> "hub" [] x = "About" -> "about"
       [] x = "Us" -> "us" [] x = "Boss" -> "boss"]

toLowerCase(s) == IF s \in DOMAIN LowerTable THEN LowerTable[s] ELSE s

LowerAll(toks) == [i \in 1..Len(toks) |-> toLowerCase(toks[i])]

-----------------------------------------------------------------------------
(* Permission packs *)

\* PermissionsBitField.Flags: the flag names the library knows.
Flags == {"Administrator", "ManageGuild", "ManageRoles", "ManageChannels",
          "KickMembers", "BanMembers", "ModerateMembers", "ManageMessages",
          "ViewAuditLog", "ViewChannel", "SendMessages", "ReadMessageHistory"}

PERM_PACKS ==
  [p \in {"owner", "admin", "mod", "helper", "verified", "member", "ping"} |->
     CASE p = "owner" -> <<"Administrator">>
       [] p = "admin" -> <<"ManageGuild", "ManageRoles", "ManageChannels", "KickMembers",
                           "BanMembers", "ModerateMembers", "ManageMessages", "ViewAuditLog">>
       [] p = "mod" -> <<"KickMembers", "ModerateMembers", "ManageMessages", "ViewAuditLog">>
       [] p = "helper" -> <<"ManageMessages">>
       [] OTHER -> <<>>]

\* PERM_PACKS is an object literal, so PERM_PACKS[packName] also finds the
\* properties it inherits from Object.prototype.
InheritedProperties ==
  {"constructor", "toString", "toLocaleString", "valueOf", "hasOwnProperty",
   "isPrototypeOf", "propertyIsEnumerable", "__proto__"}

\* The inherited value (a function, or Object.prototype itself): not an
\* array of flags, and not null or undefined, so `?? []` lets it through.
Inherited(packName) == <<"Object.prototype." \o packName>>

\* PERM_PACKS[packName] ?? []
permsForPack(packName) ==
  IF packName \in DOMAIN PERM_PACKS THEN PERM_PACKS[packName]
  ELSE IF packName \in InheritedProperties THEN Inherited(packName)
  ELSE <<>>

-----------------------------------------------------------------------------
(* Templates: the JSON files loadTemplate reads from templates/<id>.json *)

Role(k, n, pack) == [key |-> k, name |-> n, permPack |-> pack]
Channel(k, n, slow) == [key |-> k, name |-> n, topic |-> "", slowmode |-> slow]
Overwrite(t, rk, al, dn) == [target |-> t, targetRoleKey |-> rk, allow |-> al, deny |-> dn]
Message(ck, ty) == [channelKey |-> ck, type |-> ty]

DefaultTemplateId == "roblox_standard_v1"

Templates ==
  [t \in {"roblox_standard_v1", "dup", "extra"} |->
     CASE t = "roblox_standard_v1" ->
            [name |-> "Standard",
             roles |-> <<Role("r1", "Mods", "mod"), Role("r2", "Guests", "not_a_real_pack")>>,
             categories |->
               <<[key |-> "c1", name |-> "Info",
                  overwrites |-> <<Overwrite("@everyone", "", <<>>, <<"ViewChannel">>),
                                   Overwrite("", "r1", <<"ViewChannel", "Fly">>, <<>>),
                                   Overwrite("", "ghost", <<"ViewChannel">>, <<>>),
                                   Overwrite("@everyone", "r2", <<>>, <<"SendMessages">>)>>,
                  channels |-> <<Channel("ch1", "Welcome Area!", 0), Channel("ch2", "rules", -5)>>],
                 [key |-> "c2", name |-> "Empty", overwrites |-> <<>>, channels |-> <<>>]>>,
             messages |-> <<Message("ch1", "embed"), Message("chX", "text"), Message("ch2", "text")>>]
       [] t = "dup" ->
            [name |-> "Duplicates",
             roles |-> <<Role("r1", "First", "helper"), Role("r1", "Second", "owner")>>,
             categories |->
               <<[key |-> "c1", name |-> "Talk",
                  overwrites |-> <<Overwrite("@everyone", "ghost", <<>>, <<"ViewChannel">>)>>,
                  channels |-> <<Channel("ch1", "general", 2)>>]>>,
             messages |-> <<Message("ch1", "poll"), Message("ch1", "text")>>]
       [] t = "extra" ->
            [name |-> "Extra",
             roles |-> <<Role("r9", "Makers", "constructor")>>,
             categories |->
               <<[key |-> "c3", name |-> "More",
                  overwrites |-> <<Overwrite("", "toString", <<"ViewChannel">>, <<>>),
                                   Overwrite("@everyone", "", <<>>, <<"constructor">>)>>,
                  channels |-> <<Channel("ch4", "trading", 0)>>]>>,
             messages |-> <<Message("ch1", "text")>>]]

\* Template ids a /build may name; "" is the omitted option, "nope" has no file.
TemplateOptions == {"", "dup", "extra", "nope"}

-----------------------------------------------------------------------------
(* The guild objects discord.js hands to the engines (the live tree) *)

CachedRole(n, name, position) == [id |-> <<0, n>>, name |-> name, position |-> position]
CachedChannel(n, name, type) == [id |-> <<0, n>>, name |-> name, type |-> type]

GuildObject(g) ==
  IF g = "g1"
  THEN [id |-> "g1", everyone |-> <<0, 1>>,
        roles |-> <<CachedRole(1, <<"@everyone">>, 0), CachedRole(3, <<"Mod">>, 3),
                    CachedRole(4, <<"Admin">>, 5), CachedRole(5, <<"Owner">>, 7)>>,
        channels |-> <<CachedChannel(11, <<"INFO">>, "category"),
                       CachedChannel(12, <<"general">>, "text"),
                       CachedChannel(13, <<"News">>, "announcement"),
                       CachedChannel(14, <<"Lounge">>, "voice")>>]
  ELSE [id |-> "g2", everyone |-> <<0, 2>>,
        roles |-> <<CachedRole(2, <<"@everyone">>, 0), CachedRole(6, <<"Admin">>, 2)>>,
        channels |-> <<CachedChannel(21, <<"general">>, "category"),
                       CachedChannel(22, <<"news">>, "text")>>]

\* guild.roles.highest.position
RECURSIVE MaxPosition(_)
MaxPosition(rs) == IF Len(rs) = 0 THEN 0 ELSE Max(rs[1].position, MaxPosition(Tail(rs)))

\* guild.members.me: the bot's own member record (present: it is cached) and the
\* position of the bot's highest role on the platform.
MeOptions == {[present |-> FALSE, highest |-> 5], [present |-> TRUE, highest |-> 5]}

\* /edit command texts, split at whitespace.
EditTexts ==
  {<<"change", "role", "Mod", "color", "to", "black">>,
   <<"CHANGE", "ROLE", "admin", "COLOR", "TO", "#000000">>,
   <<"change", "role", "Owner", "color", "to", "00ff00">>,
   <<"change", "role", "Ghost", "color", "to", "black">>,
   <<"change", "role", "Ghost", "color", "to", "blurple">>,
   <<"change", "role", "Admin", "color", "to", "blurple">>,
   <<"rename", "channel", "General", "to", "Main", "Chat">>,
   <<"rename", "channel", "news", "to", "updates">>,
   <<"rename", "channel", "info", "to", "about">>,
   <<"rename", "category", "info", "to", "About", "Us">>,
   <<"rename", "category", "News", "to", "updates">>,
   <<"create", "channel", "Trading", "Hub", "in", "category", "INFO">>,
   <<"create", "channel", "trading", "in", "category", "ghost">>,
   <<"lock", "channel", "general">>,
   <<"UNLOCK", "channel", "General">>,
   <<"lock", "channel", "news">>,
   <<"unlock", "channel", "ghost">>,
   <<"rename", "role", "Mod", "to", "Boss">>,
   <<"slowmode", "general", "5">>}

Interaction(cmd, adm, g, opt, text, me) ==
  [commandName |-> cmd, admin |-> adm, guild |-> g, template |-> opt,
   command |-> text, me |-> me]

NoMe == [present |-> FALSE, highest |-> 0]
NoInteraction == Interaction("", FALSE, "", "", <<>>, NoMe)

BuildInteractions ==
  {Interaction("build", TRUE, g, opt, <<>>, NoMe) : g \in Guilds, opt \in TemplateOptions}

EditInteractions ==
  {Interaction("edit", TRUE, g, "", text, me) : g \in Guilds, text \in EditTexts, me \in MeOptions}

\* Interactions the handler turns away: no Administrator permission (in a
\* guild or in a direct message), or an administrator outside any guild.
RefusedInteractions ==
  {Interaction(cmd, FALSE, g, "", <<>>, NoMe) : cmd \in {"build", "edit"}, g \in {"g1", ""}}
  \cup {Interaction(cmd, TRUE, "", "", <<>>, NoMe) : cmd \in {"build", "edit"}}

-----------------------------------------------------------------------------
(* The state file *)

\* Mutant: a file that does not parse is replaced by an empty document.
ensureDataDir_Repairs(f) ==
  IF f.status \in {"missing", "corrupt"} THEN [status |-> "ok", doc |-> EmptyMap] ELSE f

ensureDataDir(f) == IF f.status = "missing" THEN [status |-> "ok", doc |-> EmptyMap] ELSE f

\* readGuildState: the file after ensureDataDir, and JSON.parse of it.
readGuildState(f) ==
  LET g == ensureDataDir(f)
  IN [file |-> g, threw |-> g.status = "corrupt", doc |-> g.doc]

\* Mutant: a document already on disk is not replaced.
writeGuildState_FirstWins(f, st) ==
  IF f.status = "ok" /\ f.doc # EmptyMap THEN f ELSE [status |-> "ok", doc |-> st]

writeGuildState(f, st) == [status |-> "ok", doc |-> st]

\* Mutant: the workspace entry is always started afresh.
WithGuildDefault_Reset(doc, gid) == Put(doc, gid, EmptyGuildState)

\* state[guild.id] = state[guild.id] || { roles: {}, categories: {}, channels: {} }
WithGuildDefault(doc, gid) == IF gid \in DOMAIN doc THEN doc ELSE Put(doc, gid, EmptyGuildState)

\* Mutant: every member passes the permission check.
requireAdmin_Anyone(interaction) == TRUE

requireAdmin(interaction) == interaction.admin

-----------------------------------------------------------------------------
(* Build Engine: the synchronous code of buildFromTemplate *)

\* A remote call of the engine and its outcome: "ok" or "error", and for a
\* fetch the kind of channel it returned ("text", "notText").
Call(op, at, arg, res, id) == [op |-> op, at |-> at, arg |-> arg, res |-> res, id |-> id]

Remote(id, type, parent) == [id |-> id, type |-> type, parent |-> parent]

\* The message of the error a rejected remote call throws.
ErrorOf(op) == op \o ": API error"

NoResult == [ok |-> FALSE, kind |-> "", message |-> <<>>]
NoPos == [r |-> 0, c |-> 0, h |-> 0, m |-> 0]
Stop(at, r, c, h, m) == [pc |-> at, pos |-> [r |-> r, c |-> c, h |-> h, m |-> m]]

\* interaction.options.getString("template") || "roblox_standard_v1"
TemplateIdOf(interaction) ==
  IF interaction.template = "" THEN DefaultTemplateId ELSE interaction.template

\* loadTemplate throws when templates/<id>.json does not exist.
TemplateExists(templateId) == templateId \in DOMAIN Templates

TemplateOf(p) == Templates[TemplateIdOf(inter[p])]

\* Mutant: a key that is already mapped keeps its first id.
RecordRole_KeepFirst(st, gid, key, id) ==
  IF key \in DOMAIN st[gid].roles THEN st ELSE [st EXCEPT ![gid].roles = Put(@, key, id)]

\* state[guild.id].roles[r.key] = created.id
RecordRole(st, gid, key, id) == [st EXCEPT ![gid].roles = Put(@, key, id)]

\* state[guild.id].categories[cat.key] = category.id
RecordCategory(st, gid, key, id) == [st EXCEPT ![gid].categories = Put(@, key, id)]

RecordChannel_KeepStored(st, gid, key, id) ==
  IF key \in DOMAIN st[gid].channels THEN st ELSE [st EXCEPT ![gid].channels = Put(@, key, id)]

\* state[guild.id].channels[ch.key] = channel.id
RecordChannel(st, gid, key, id) == [st EXCEPT ![gid].channels = Put(@, key, id)]

\* The descending ladder handed to guild.roles.setPositions.
RolePositions(t, roleMap, highest) ==
  LET present == SelectSeq(t.roles, LAMBDA r : r.key \in DOMAIN roleMap)
  IN [i \in 1..Len(present) |->
        [id |-> roleMap[present[i].key], position |-> (highest - 1) - (i - 1)]]

\* What a lookup of an inherited property yields where an id is expected: a
\* truthy value that is no id.
InheritedId == <<-1, -1>>

\* getRoleIdByKey: state[guild.id].roles[roleKey], a lookup in a plain object
\* ([has, id], has FALSE standing for undefined).
getRoleIdByKey(roleMap, roleKey) ==
  IF roleKey \in DOMAIN roleMap THEN [has |-> TRUE, id |-> roleMap[roleKey]]
  ELSE IF roleKey \in InheritedProperties THEN [has |-> TRUE, id |-> InheritedId]
  ELSE [has |-> FALSE, id |-> NoId]

\* .map(p => PermissionsBitField.Flags[p]).filter(Boolean): the names whose
\* lookup in the Flags object is truthy.
KnownFlags(names) ==
  SelectSeq(names, LAMBDA n : n \in Flags \/ n \in InheritedProperties)

\* convertOverwrite, as the list of records it contributes (none for null).
convertOverwrite(ow, roleMap, everyoneId) ==
  LET first == IF ow.target = "@everyone"
               THEN [has |-> TRUE, id |-> everyoneId]
               ELSE [has |-> FALSE, id |-> NoId]
      found == IF ow.targetRoleKey # ""
               THEN getRoleIdByKey(roleMap, ow.targetRoleKey)
               ELSE first
  IN IF ~found.has THEN <<>>
     ELSE <<[id |-> found.id, allow |-> KnownFlags(ow.allow), deny |-> KnownFlags(ow.deny)]>>

\* (cat.overwrites || []).map(convertOverwrite).filter(Boolean)
RECURSIVE convertOverwrites(_, _, _)
convertOverwrites(ows, roleMap, everyoneId) ==
  IF Len(ows) = 0 THEN <<>>
  ELSE convertOverwrite(ows[1], roleMap, everyoneId)
         \o convertOverwrites(Tail(ows), roleMap, everyoneId)

\* Math.max(0, Number(ch.slowmode || 0))
RateLimit(ch) == Max(0, ch.slowmode)

\* Where the message loop next awaits: the first message from m on whose
\* channelKey the channel map resolves, or the end of the build.
RECURSIVE MessagesFrom(_, _, _)
MessagesFrom(t, channelMap, m) ==
  IF m > Len(t.messages) THEN Stop("finish", 0, 0, 0, m)
  ELSE IF t.messages[m].channelKey \in DOMAIN channelMap THEN Stop("fetch", 0, 0, 0, m)
  ELSE MessagesFrom(t, channelMap, m + 1)

CategoriesFrom(t, channelMap, c) ==
  IF c <= Len(t.categories) THEN Stop("cat", 0, c, 0, 0) ELSE MessagesFrom(t, channelMap, 1)

\* Mutant: the message loop sits inside the category loop.
ChannelsFrom_MessagesInside(t, channelMap, c, h) ==
  IF h <= Len(t.categories[c].channels) THEN Stop("chan", 0, c, h, 0)
  ELSE MessagesFrom(t, channelMap, 1)

ChannelsFrom(t, channelMap, c, h) ==
  IF h <= Len(t.categories[c].channels) THEN Stop("chan", 0, c, h, 0)
  ELSE CategoriesFrom(t, channelMap, c + 1)

RolesFrom(t, r) ==
  IF r <= Len(t.roles) THEN Stop("role", r, 0, 0, 0) ELSE Stop("repos", 0, 0, 0, 0)

\* Mutant: the fetched channel is not checked before sending.
AfterFetch_Unchecked(t, channelMap, m, outcome) ==
  IF t.messages[m].type \in {"embed", "text"}
  THEN Stop("send", 0, 0, 0, m)
  ELSE MessagesFrom(t, channelMap, m + 1)

\* After a fetched channel: send when it is text based and the message has a
\* known type, otherwise go on with the next message.
AfterFetch(t, channelMap, m, outcome) ==
  IF outcome = "text" /\ t.messages[m].type \in {"embed", "text"}
  THEN Stop("send", 0, 0, 0, m)
  ELSE MessagesFrom(t, channelMap, m + 1)

BuildResult(t) == [ok |-> TRUE, kind |-> "Built", message |-> <<"Build complete", t.name>>]

\* The engine runs on to its next await, or to its end: writeGuildState(state)
\* and return template.
Goto(p, st, stop) ==
  /\ pc' = [pc EXCEPT ![p] = IF stop.pc = "finish" THEN "followUpOk" ELSE stop.pc]
  /\ pos' = [pos EXCEPT ![p] = stop.pos]
  /\ file' = IF stop.pc = "finish" THEN writeGuildState(file, st) ELSE file
  /\ result' = [result EXCEPT ![p] = IF stop.pc = "finish" THEN BuildResult(TemplateOf(p)) ELSE @]
  /\ err' = err

\* An exception leaves the engine and lands in the handler's catch block.
Throw(p, message) ==
  /\ pc' = [pc EXCEPT ![p] = "followUpErr"]
  /\ err' = [err EXCEPT ![p] = message]
  /\ UNCHANGED <<pos, file, result>>

NewId(p) == <<runNo[p], nid[p] + 1>>

Log(p, call) == calls' = [calls EXCEPT ![p] = Append(@, call)]

-----------------------------------------------------------------------------
(* Build Engine: one action per awaited remote call *)

\* Mutant: the reposition request is awaited outside the try block.
RepositionFatal_Uncaught(ok) == ~ok

\* The catch block around the reposition request rethrows nothing.
RepositionFatal(ok) == FALSE

\* guild.channels.fetch(channelId).catch(() => null) rethrows nothing.
FetchFatal(outcome) == FALSE

\* Mutant: a rejected create or send call is swallowed.
CreateFatal_Swallowed(ok) == FALSE

\* A rejected create or send call is not caught inside buildFromTemplate.
CreateFatal(ok) == ~ok

Reply(p, via, content, ok) ==
  replies' = [replies EXCEPT ![p] = Append(@, [via |-> via, content |-> content, ok |-> ok])]

\* interaction.reply resolved; buildFromTemplate runs to its first await.
BuildBegin(p) ==
  /\ pc[p] = "ack"
  /\ inter[p].commandName = "build"
  /\ Reply(p, "reply", <<"Building template", TemplateIdOf(inter[p])>>, TRUE)
  /\ LET tid == TemplateIdOf(inter[p])
         rd == readGuildState(file)
     IN IF ~TemplateExists(tid)
        THEN /\ pc' = [pc EXCEPT ![p] = "followUpErr"]
             /\ err' = [err EXCEPT ![p] = "Template file not found"]
             /\ UNCHANGED <<file, state, loaded, pos>>
        ELSE IF rd.threw
        THEN /\ pc' = [pc EXCEPT ![p] = "followUpErr"]
             /\ err' = [err EXCEPT ![p] = "Unexpected token in JSON"]
             /\ file' = rd.file
             /\ UNCHANGED <<state, loaded, pos>>
        ELSE /\ file' = rd.file
             /\ loaded' = [loaded EXCEPT ![p] = rd.doc]
             /\ state' = [state EXCEPT ![p] = WithGuildDefault(rd.doc, inter[p].guild)]
             /\ pc' = [pc EXCEPT ![p] = RolesFrom(Templates[tid], 1).pc]
             /\ pos' = [pos EXCEPT ![p] = RolesFrom(Templates[tid], 1).pos]
             /\ err' = err
  /\ UNCHANGED <<runs, inter, runNo, category, nid, calls, result, pend, remote, escaped>>
  /\ UNCHANGED normalizerVars

\* await guild.roles.create(...) for role pos.r
RoleCreate(p) ==
  /\ pc[p] = "role"
  /\ LET t == TemplateOf(p)
         r == t.roles[pos[p].r]
         arg == [name |-> r.name, permissions |-> permsForPack(r.permPack)]
     IN \E ok \in BOOLEAN :
          IF CreateFatal(ok)
          THEN /\ Log(p, Call("roles.create", <<pos[p].r>>, arg, "error", NoId))
               /\ Throw(p, ErrorOf("roles.create"))
               /\ UNCHANGED <<state, nid>>
          ELSE LET st == RecordRole(state[p], inter[p].guild, r.key, NewId(p))
               IN /\ Log(p, Call("roles.create", <<pos[p].r>>, arg, "ok", NewId(p)))
                  /\ state' = [state EXCEPT ![p] = st]
                  /\ nid' = [nid EXCEPT ![p] = @ + 1]
                  /\ Goto(p, st, RolesFrom(t, pos[p].r + 1))
  /\ UNCHANGED <<runs, inter, runNo, loaded, category, replies, pend, remote, escaped>>
  /\ UNCHANGED normalizerVars

\* await guild.roles.setPositions(positions), inside try / catch
Reposition(p) ==
  /\ pc[p] = "repos"
  /\ LET t == TemplateOf(p)
         g == GuildObject(inter[p].guild)
         st == state[p][inter[p].guild]
         arg == RolePositions(t, st.roles, MaxPosition(g.roles))
     IN \E ok \in BOOLEAN :
          /\ Log(p, Call("roles.setPositions", <<>>, arg, IF ok THEN "ok" ELSE "error", NoId))
          /\ IF RepositionFatal(ok)
             THEN Throw(p, ErrorOf("roles.setPositions"))
             ELSE Goto(p, state[p], CategoriesFrom(t, st.channels, 1))
  /\ UNCHANGED <<runs, inter, runNo, state, loaded, category, nid, replies, pend, remote, escaped>>
  /\ UNCHANGED normalizerVars

\* await guild.channels.create({ type: GuildCategory, ... }) for category pos.c
CategoryCreate(p) ==
  /\ pc[p] = "cat"
  /\ LET t == TemplateOf(p)
         g == GuildObject(inter[p].guild)
         cat == t.categories[pos[p].c]
         arg == [name |-> cat.name, type |-> "category",
                 permissionOverwrites |->
                   convertOverwrites(cat.overwrites, state[p][g.id].roles, g.everyone)]
     IN \E ok \in BOOLEAN :
          IF CreateFatal(ok)
          THEN /\ Log(p, Call("channels.create", <<pos[p].c>>, arg, "error", NoId))
               /\ Throw(p, ErrorOf("channels.create"))
               /\ UNCHANGED <<state, nid, category, remote>>
          ELSE LET st == RecordCategory(state[p], g.id, cat.key, NewId(p))
               IN /\ Log(p, Call("channels.create", <<pos[p].c>>, arg, "ok", NewId(p)))
                  /\ state' = [state EXCEPT ![p] = st]
                  /\ nid' = [nid EXCEPT ![p] = @ + 1]
                  /\ category' = [category EXCEPT ![p] = NewId(p)]
                  /\ remote' = remote \cup {Remote(NewId(p), "category", NoId)}
                  /\ Goto(p, st, ChannelsFrom(t, st[g.id].channels, pos[p].c, 1))
  /\ UNCHANGED <<runs, inter, runNo, loaded, replies, pend, escaped>>
  /\ UNCHANGED normalizerVars

\* await guild.channels.create({ type: GuildText, parent, ... }) for channel pos.h
ChannelCreate(p) ==
  /\ pc[p] = "chan"
  /\ LET t == TemplateOf(p)
         gid == inter[p].guild
         ch == t.categories[pos[p].c].channels[pos[p].h]
         arg == [name |-> ch.name, type |-> "text", parent |-> category[p],
                 topic |-> ch.topic, rateLimitPerUser |-> RateLimit(ch)]
     IN \E ok \in BOOLEAN :
          IF CreateFatal(ok)
          THEN /\ Log(p, Call("channels.create", <<pos[p].c, pos[p].h>>, arg, "error", NoId))
               /\ Throw(p, ErrorOf("channels.create"))
               /\ UNCHANGED <<state, nid, remote>>
          ELSE LET st == RecordChannel(state[p], gid, ch.key, NewId(p))
               IN /\ Log(p, Call("channels.create", <<pos[p].c, pos[p].h>>, arg, "ok", NewId(p)))
                  /\ state' = [state EXCEPT ![p] = st]
                  /\ nid' = [nid EXCEPT ![p] = @ + 1]
                  /\ remote' = remote \cup {Remote(NewId(p), "text", category[p])}
                  /\ Goto(p, st, ChannelsFrom(t, st[gid].channels, pos[p].c, pos[p].h + 1))
  /\ UNCHANGED <<runs, inter, runNo, loaded, category, replies, pend, escaped>>
  /\ UNCHANGED normalizerVars

\* The channel id message pos.m resolves to.
MessageChannelId(p) ==
  state[p][inter[p].guild].channels[TemplateOf(p).messages[pos[p].m].channelKey]

\* await guild.channels.fetch(channelId).catch(() => null)
ChannelFetch(p) ==
  /\ pc[p] = "fetch"
  /\ LET t == TemplateOf(p)
         st == state[p][inter[p].guild]
     IN \E outcome \in {"error", "notText", "text"} :
          /\ Log(p, Call("channels.fetch", <<pos[p].m>>, MessageChannelId(p), outcome,
                         IF outcome = "error" THEN NoId ELSE MessageChannelId(p)))
          /\ IF FetchFatal(outcome)
             THEN Throw(p, ErrorOf("channels.fetch"))
             ELSE Goto(p, state[p], AfterFetch(t, st.channels, pos[p].m, outcome))
  /\ UNCHANGED <<runs, inter, runNo, state, loaded, category, nid, replies, pend, remote, escaped>>
  /\ UNCHANGED normalizerVars

\* await channel.send(...)
MessageSend(p) ==
  /\ pc[p] = "send"
  /\ LET t == TemplateOf(p)
         st == state[p][inter[p].guild]
         arg == [channel |-> MessageChannelId(p), type |-> t.messages[pos[p].m].type]
     IN \E ok \in BOOLEAN :
          /\ Log(p, Call("channel.send", <<pos[p].m>>, arg, IF ok THEN "ok" ELSE "error", NoId))
          /\ IF CreateFatal(ok)
             THEN Throw(p, ErrorOf("channel.send"))
             ELSE Goto(p, state[p], MessagesFrom(t, st.channels, pos[p].m + 1))
  /\ UNCHANGED <<runs, inter, runNo, state, loaded, category, nid, replies, pend, remote, escaped>>
  /\ UNCHANGED normalizerVars

-----------------------------------------------------------------------------
(* Edit Engine: the synchronous code of runEditCommand *)

\* Token i of the text is the keyword w (the patterns carry the i flag).
Keyword(t, i, w) == i \in 1..Len(t) /\ toLowerCase(t[i]) = w

\* The least member of S, 0 when there is none: where a lazy group (.+?)
\* ends, and the element Collection.find returns.
Least(S) == IF S = {} THEN 0 ELSE CHOOSE k \in S : \A j \in S : k <= j

NoEdit == [kind |-> "none", a |-> <<>>, b |-> <<>>]

\* The five patterns of runEditCommand, tried in source order.
ParseEdit(t) ==
  LET n == Len(t)
      kColor == Least({k \in 4..(n - 2) : Keyword(t, k, "color") /\ Keyword(t, k + 1, "to")})
      kTo == Least({k \in 4..(n - 1) : Keyword(t, k, "to")})
      kIn == Least({k \in 4..(n - 2) : Keyword(t, k, "in") /\ Keyword(t, k + 1, "category")})
  IN IF Keyword(t, 1, "change") /\ Keyword(t, 2, "role") /\ kColor # 0
     THEN [kind |-> "color", a |-> SubSeq(t, 3, kColor - 1), b |-> SubSeq(t, kColor + 2, n)]
     ELSE IF Keyword(t, 1, "rename") /\ Keyword(t, 2, "channel") /\ kTo # 0
     THEN [kind |-> "renameChannel", a |-> SubSeq(t, 3, kTo - 1), b |-> SubSeq(t, kTo + 1, n)]
     ELSE IF Keyword(t, 1, "rename") /\ Keyword(t, 2, "category") /\ kTo # 0
     THEN [kind |-> "renameCategory", a |-> SubSeq(t, 3, kTo - 1), b |-> SubSeq(t, kTo + 1, n)]
     ELSE IF Keyword(t, 1, "create") /\ Keyword(t, 2, "channel") /\ kIn # 0
     THEN [kind |-> "createChannel", a |-> SubSeq(t, 3, kIn - 1), b |-> SubSeq(t, kIn + 2, n)]
     ELSE IF (Keyword(t, 1, "lock") \/ Keyword(t, 1, "unlock")) /\ Keyword(t, 2, "channel") /\ n >= 3
     THEN [kind |-> toLowerCase(t[1]), a |-> SubSeq(t, 3, n), b |-> <<>>]
     ELSE NoEdit

NamedColors ==
  [c \in {"black", "white", "red", "green", "blue", "yellow", "orange", "purple",
          "pink", "cyan", "gray", "grey"} |->
     CASE c = "black" -> "#000000" [] c = "white" -> "#ffffff" [] c = "red" -> "#ff0000"
       [] c = "green" -> "#00ff00" [] c = "blue" -> "#0000ff" [] c = "yellow" -> "#ffff00"
       [] c = "orange" -> "#ffa500" [] c = "purple" -> "#800080" [] c = "pink" -> "#ff69b4"
       [] c = "cyan" -> "#00ffff" [] c = "gray" -> "#808080" [] c = "grey" -> "#808080"]

\* The six-digit hexadecimal words of the vocabulary.
HexWords == {"000000", "00ff00"}

\* normalizeColor: [ok, value], ok FALSE standing for null.
normalizeColor(input) ==
  LET s == Join(LowerAll(input), " ")
  IN IF s \in DOMAIN NamedColors THEN [ok |-> TRUE, value |-> NamedColors[s]]
     ELSE IF Len(s) = 7 /\ \E w \in HexWords : s = "#" \o w THEN [ok |-> TRUE, value |-> s]
     ELSE IF s \in HexWords THEN [ok |-> TRUE, value |-> "#" \o s]
     ELSE [ok |-> FALSE, value |-> ""]

\* Mutant: the lookup ignores the channel type.
FindByName_AnyType(cache, types, name) ==
  Least({i \in 1..Len(cache) : LowerAll(cache[i].name) = LowerAll(name)})

\* cache.find(x => types has x.type && x.name.toLowerCase() === name.toLowerCase())
FindByName(cache, types, name) ==
  Least({i \in 1..Len(cache) :
           cache[i].type \in types /\ LowerAll(cache[i].name) = LowerAll(name)})

FindRole(cache, name) ==
  Least({i \in 1..Len(cache) : LowerAll(cache[i].name) = LowerAll(name)})

\* Mutant: the guard lets a role at the bot's own position through.
Guarded_StrictlyAbove(me, role) == me.present /\ role.position > me.highest

\* The hierarchy guard of the recolor edit: me && role.position >= me.roles.highest.position
Guarded(me, role) == me.present /\ role.position >= me.highest

Result(ok, kind, message) == [ok |-> ok, kind |-> kind, message |-> message]
Return(res) == [returns |-> TRUE, result |-> res, op |-> "", target |-> NoId, arg |-> <<>>]
Await(op, target, arg, res) ==
  [returns |-> FALSE, result |-> res, op |-> op, target |-> target, arg |-> arg]
NoPlan == Return(NoResult)

\* Mutant: the fall-through reports success and says nothing.
Unrecognised_Silent == Result(TRUE, "Unknown", <<>>)

Unrecognised == Result(FALSE, "Unknown", <<"I didn't understand">>)

\* runEditCommand up to its await: the value it returns at once, or the
\* mutation call it awaits with the value it returns when that call resolves.
EditPlan(g, me, text) ==
  LET e == ParseEdit(text)
  IN CASE e.kind = "color" ->
            LET color == normalizeColor(e.b)
                i == FindRole(g.roles, e.a)
            IN IF ~color.ok
               THEN Return(Result(FALSE, "UnknownColor", <<"Unknown color", Join(e.b, " ")>>))
               ELSE IF i = 0
               THEN Return(Result(FALSE, "NotFound", <<"Role not found", Join(e.a, " ")>>))
               ELSE IF Guarded(me, g.roles[i])
               THEN Return(Result(FALSE, "Guarded", <<"I can't edit that role">>))
               ELSE Await("role.setColor", g.roles[i].id, <<color.value>>,
                          Result(TRUE, "Applied", <<"Changed role color", color.value>>))
       [] e.kind = "renameChannel" ->
            LET newName == Join(LowerAll(e.b), "-")
                i == FindByName(g.channels, {"text", "announcement"}, e.a)
            IN IF i = 0
               THEN Return(Result(FALSE, "NotFound", <<"Channel not found", Join(e.a, " ")>>))
               ELSE Await("channel.setName", g.channels[i].id, <<newName>>,
                          Result(TRUE, "Applied", <<"Renamed channel", newName>>))
       [] e.kind = "renameCategory" ->
            LET newName == Join(e.b, " ")
                i == FindByName(g.channels, {"category"}, e.a)
            IN IF i = 0
               THEN Return(Result(FALSE, "NotFound", <<"Category not found", Join(e.a, " ")>>))
               ELSE Await("channel.setName", g.channels[i].id, <<newName>>,
                          Result(TRUE, "Applied", <<"Renamed category", newName>>))
       [] e.kind = "createChannel" ->
            LET chanName == Join(LowerAll(e.a), "-")
                i == FindByName(g.channels, {"category"}, e.b)
            IN IF i = 0
               THEN Return(Result(FALSE, "NotFound", <<"Category not found", Join(e.b, " ")>>))
               ELSE Await("channels.create", g.channels[i].id, <<chanName>>,
                          Result(TRUE, "Applied", <<"Created channel", chanName>>))
       [] e.kind \in {"lock", "unlock"} ->
            LET i == FindByName(g.channels, {"text"}, e.a)
            IN IF i = 0
               THEN Return(Result(FALSE, "NotFound", <<"Channel not found", Join(e.a, " ")>>))
               ELSE Await("permissionOverwrites.edit", g.channels[i].id,
                          <<g.everyone, IF e.kind = "lock" THEN "SendMessages: false"
                                        ELSE "SendMessages: null">>,
                          Result(TRUE, "Applied", <<IF e.kind = "lock" THEN "Locked" ELSE "Unlocked">>))
       [] OTHER -> Return(Unrecognised)

-----------------------------------------------------------------------------
(* The interactionCreate handler and the Edit Engine's awaited call *)

RefusalFor(interaction) ==
  IF ~requireAdmin(interaction) THEN <<"You need Administrator to use this.">>
  ELSE <<"This must be used in a server.">>

\* Mutant: the engine's result is kept in a variable that outlives the
\* handler invocation.
FreshRun_SharedResult(p, interaction) ==
  /\ runs' = runs + 1
  /\ runNo' = [runNo EXCEPT ![p] = runs + 1]
  /\ inter' = [inter EXCEPT ![p] = interaction]
  /\ state' = [state EXCEPT ![p] = EmptyMap]
  /\ loaded' = [loaded EXCEPT ![p] = EmptyMap]
  /\ pos' = [pos EXCEPT ![p] = NoPos]
  /\ category' = [category EXCEPT ![p] = NoId]
  /\ nid' = [nid EXCEPT ![p] = 0]
  /\ calls' = [calls EXCEPT ![p] = <<>>]
  /\ err' = [err EXCEPT ![p] = ""]
  /\ result' = result
  /\ pend' = [pend EXCEPT ![p] = NoPlan]
  /\ escaped' = [escaped EXCEPT ![p] = FALSE]
  /\ remote' = remote

FreshRun(p, interaction) ==
  /\ runs' = runs + 1
  /\ runNo' = [runNo EXCEPT ![p] = runs + 1]
  /\ inter' = [inter EXCEPT ![p] = interaction]
  /\ state' = [state EXCEPT ![p] = EmptyMap]
  /\ loaded' = [loaded EXCEPT ![p] = EmptyMap]
  /\ pos' = [pos EXCEPT ![p] = NoPos]
  /\ category' = [category EXCEPT ![p] = NoId]
  /\ nid' = [nid EXCEPT ![p] = 0]
  /\ calls' = [calls EXCEPT ![p] = <<>>]
  /\ err' = [err EXCEPT ![p] = ""]
  /\ result' = [result EXCEPT ![p] = NoResult]
  /\ pend' = [pend EXCEPT ![p] = NoPlan]
  /\ escaped' = [escaped EXCEPT ![p] = FALSE]
  /\ remote' = remote

\* A /build or /edit from an administrator inside a guild: the handler
\* acknowledges it with interaction.reply and awaits that call.
ReceiveOf(p, interactions) ==
  /\ pc[p] = "idle"
  /\ runs < MaxRuns
  /\ \E interaction \in interactions :
       /\ requireAdmin(interaction)
       /\ interaction.guild # ""
       /\ FreshRun(p, interaction)
  /\ pc' = [pc EXCEPT ![p] = "ack"]
  /\ replies' = [replies EXCEPT ![p] = <<>>]
  /\ file' = file
  /\ UNCHANGED normalizerVars

\* Every interaction reaches the handler; its guards decide which are accepted.
Interactions == BuildInteractions \cup EditInteractions \cup RefusedInteractions

Receive(p) == ReceiveOf(p, Interactions)

\* requireAdmin fails or interaction.guild is missing: safeReply, whose own
\* failure is swallowed, and the handler returns.
RefuseOf(p, interactions) ==
  /\ pc[p] = "idle"
  /\ runs < MaxRuns
  /\ \E interaction \in interactions, ok \in BOOLEAN :
       /\ ~requireAdmin(interaction) \/ interaction.guild = ""
       /\ FreshRun(p, interaction)
       /\ replies' = [replies EXCEPT ![p] =
                        <<[via |-> "reply", content |-> RefusalFor(interaction), ok |-> ok]>>]
  /\ UNCHANGED <<pc, file>>
  /\ UNCHANGED normalizerVars

Refuse(p) == RefuseOf(p, Interactions)

\* The acknowledging interaction.reply rejects; it is awaited outside any try.
ReplyFails(p) ==
  /\ pc[p] = "ack"
  /\ Reply(p, "reply", <<"ack">>, FALSE)
  /\ pc' = [pc EXCEPT ![p] = "idle"]
  /\ escaped' = [escaped EXCEPT ![p] = TRUE]
  /\ UNCHANGED <<file, runs, inter, runNo, state, loaded, pos, category, nid, calls,
                 err, result, pend, remote>>
  /\ UNCHANGED normalizerVars

\* Mutant: the edit branch reads the store before it starts.
EditBegin_ReadsStore(p) ==
  /\ pc[p] = "ack"
  /\ inter[p].commandName = "edit"
  /\ Reply(p, "reply", <<"Running edit", Join(inter[p].command, " ")>>, TRUE)
  /\ LET plan == EditPlan(GuildObject(inter[p].guild), inter[p].me, inter[p].command)
     IN /\ pend' = [pend EXCEPT ![p] = plan]
        /\ result' = [result EXCEPT ![p] = IF plan.returns THEN plan.result ELSE @]
        /\ pc' = [pc EXCEPT ![p] = IF plan.returns THEN "followUpOk" ELSE "mutate"]
  /\ file' = readGuildState(file).file
  /\ UNCHANGED <<runs, inter, runNo, state, loaded, pos, category, nid, calls,
                 err, remote, escaped>>
  /\ UNCHANGED normalizerVars

\* interaction.reply resolved; runEditCommand runs to its await or its return.
EditBegin(p) ==
  /\ pc[p] = "ack"
  /\ inter[p].commandName = "edit"
  /\ Reply(p, "reply", <<"Running edit", Join(inter[p].command, " ")>>, TRUE)
  /\ LET plan == EditPlan(GuildObject(inter[p].guild), inter[p].me, inter[p].command)
     IN /\ pend' = [pend EXCEPT ![p] = plan]
        /\ result' = [result EXCEPT ![p] = IF plan.returns THEN plan.result ELSE @]
        /\ pc' = [pc EXCEPT ![p] = IF plan.returns THEN "followUpOk" ELSE "mutate"]
  /\ UNCHANGED <<file, runs, inter, runNo, state, loaded, pos, category, nid, calls,
                 err, remote, escaped>>
  /\ UNCHANGED normalizerVars

\* Mutant: a mutation call that rejects is issued a second time.
Mutate_Retry(p) ==
  /\ pc[p] = "mutate"
  /\ \E ok \in BOOLEAN :
       LET created == ok /\ pend[p].op = "channels.create"
       IN /\ Log(p, Call(pend[p].op, <<>>, [target |-> pend[p].target, arg |-> pend[p].arg],
                         IF ok THEN "ok" ELSE "error", IF created THEN NewId(p) ELSE NoId))
          /\ nid' = [nid EXCEPT ![p] = IF created THEN @ + 1 ELSE @]
          /\ remote' = IF created THEN remote \cup {Remote(NewId(p), "text", pend[p].target)}
                       ELSE remote
          /\ IF ok
             THEN /\ result' = [result EXCEPT ![p] = pend[p].result]
                  /\ pc' = [pc EXCEPT ![p] = "followUpOk"]
                  /\ UNCHANGED <<err, pos, file>>
             ELSE IF calls[p] = <<>>
             THEN UNCHANGED <<pc, err, pos, file, result>>
             ELSE Throw(p, ErrorOf(pend[p].op))
  /\ UNCHANGED <<runs, inter, runNo, state, loaded, category, replies, pend, escaped>>
  /\ UNCHANGED normalizerVars

\* The awaited mutation call of runEditCommand resolves or rejects; there is
\* no try / catch inside runEditCommand.
Mutate(p) ==
  /\ pc[p] = "mutate"
  /\ \E ok \in BOOLEAN :
       LET created == ok /\ pend[p].op = "channels.create"
       IN /\ Log(p, Call(pend[p].op, <<>>, [target |-> pend[p].target, arg |-> pend[p].arg],
                         IF ok THEN "ok" ELSE "error", IF created THEN NewId(p) ELSE NoId))
          /\ nid' = [nid EXCEPT ![p] = IF created THEN @ + 1 ELSE @]
          /\ remote' = IF created THEN remote \cup {Remote(NewId(p), "text", pend[p].target)}
                       ELSE remote
          /\ IF ok
             THEN /\ result' = [result EXCEPT ![p] = pend[p].result]
                  /\ pc' = [pc EXCEPT ![p] = "followUpOk"]
                  /\ UNCHANGED <<err, pos, file>>
             ELSE Throw(p, ErrorOf(pend[p].op))
  /\ UNCHANGED <<runs, inter, runNo, state, loaded, category, replies, pend, escaped>>
  /\ UNCHANGED normalizerVars

\* Mutant: the edit branch reports with the build branch's text.
FailurePrefix_Build(interaction) == "Build failed"

FailurePrefix(interaction) ==
  IF interaction.commandName = "build" THEN "Build failed" ELSE "Edit failed"

\* await interaction.followUp(<success>) inside the try block: a rejection
\* is caught by the same catch block as an engine failure.
FollowUpOk(p) ==
  /\ pc[p] = "followUpOk"
  /\ \E ok \in BOOLEAN :
       /\ Reply(p, "followUp", result[p].message, ok)
       /\ pc' = [pc EXCEPT ![p] = IF ok THEN "idle" ELSE "followUpErr"]
       /\ err' = [err EXCEPT ![p] = IF ok THEN @ ELSE ErrorOf("followUp")]
  /\ UNCHANGED <<file, runs, inter, runNo, state, loaded, pos, category, nid, calls,
                 result, pend, remote, escaped>>
  /\ UNCHANGED normalizerVars

\* await interaction.followUp(<failure>) inside the catch block: a rejection
\* leaves the handler.
FollowUpErr(p) ==
  /\ pc[p] = "followUpErr"
  /\ \E ok \in BOOLEAN :
       /\ Reply(p, "followUp", <<FailurePrefix(inter[p]), err[p]>>, ok)
       /\ escaped' = [escaped EXCEPT ![p] = ~ok]
  /\ pc' = [pc EXCEPT ![p] = "idle"]
  /\ UNCHANGED <<file, runs, inter, runNo, state, loaded, pos, category, nid, calls,
                 err, result, pend, remote>>
  /\ UNCHANGED normalizerVars

-----------------------------------------------------------------------------
(* The Name Normalizer of the blueprint API: normalizeChannelName           *)
(* (src/api/index.js).  A name is a sequence of one-character strings.      *)

\* .slice(0, 90)
MaxNameLen == 90

LowerCase ==
  <<"a", "b", "c", "d", "e", "f", "g", "h", "i", "j", "k", "l",
     "m", "n", "o", "p", "q", "r", "s", "t", "u", "v",
     "w", "x", "y", "z">>
UpperCase ==
  <<"A", "B", "C", "D", "E", "F", "G", "H", "I", "J", "K", "L",
     "M", "N", "O", "P", "Q", "R", "S", "T", "U", "V",
     "W", "X", "Y", "Z">>
Letters == {LowerCase[i] : i \in 1..Len(LowerCase)}
Capitals == {UpperCase[i] : i \in 1..Len(UpperCase)}
Digits == {"0", "7", "9"}
Spaces == {" "}
Dash == "-"

\* The characters the words of NameInputs are made of.
Alphabet == {"a", "b", "B", "7", " ", Dash, "!"}

\* .trim()
trim(s) ==
  LET inside == {i \in 1..Len(s) : s[i] \notin Spaces}
  IN IF inside = {} THEN <<>>
     ELSE SubSeq(s, CHOOSE i \in inside : \A j \in inside : i <= j,
                    CHOOSE i \in inside : \A j \in inside : i >= j)

\* .toLowerCase(), character by character
lowerChars(s) ==
  [i \in 1..Len(s) |->
     IF s[i] \in Capitals
     THEN LowerCase[CHOOSE k \in 1..Len(UpperCase) : UpperCase[k] = s[i]]
     ELSE s[i]]

\* .replace(/X+/g, "-"): every maximal run of characters of X becomes one dash
replaceRuns(s, X) ==
  LET First(i) == s[i] \notin X \/ i = 1 \/ s[i - 1] \notin X
      dashed == [i \in 1..Len(s) |-> IF s[i] \in X THEN Dash ELSE s[i]]
      ps == SelectSeq([i \in 1..Len(s) |-> i], First)
  IN [k \in 1..Len(ps) |-> dashed[ps[k]]]

\* .replace(/[^a-z0-9\-]/g, "-")
replaceOthers(s) ==
  [i \in 1..Len(s) |-> IF s[i] \in Letters \cup Digits \cup {Dash} THEN s[i] ELSE Dash]

\* .replace(/^\-|\-$/g, ""): one dash at the start and one at the end
stripEnds(s) ==
  LET a == IF Len(s) > 0 /\ s[1] = Dash THEN Tail(s) ELSE s
  IN IF Len(a) > 0 /\ a[Len(a)] = Dash THEN SubSeq(a, 1, Len(a) - 1) ELSE a

\* .slice(0, n)
slice(s, n) == IF Len(s) <= n THEN s ELSE SubSeq(s, 1, n)

normalizeChannelName(s) ==
  slice(stripEnds(replaceRuns(replaceOthers(replaceRuns(lowerChars(trim(s)), Spaces)),
                              {Dash})),
        MaxNameLen)

\* The characters of the channel names the templates declare.
Characters(s) ==
  CASE s = "Welcome Area!" -> <<"W", "e", "l", "c", "o", "m", "e",
                          " ", "A", "r", "e", "a", "!">>
    [] s = "rules" -> <<"r", "u", "l", "e", "s">>
    [] s = "general" -> <<"g", "e", "n", "e", "r", "a", "l">>
    [] s = "trading" -> <<"t", "r", "a", "d", "i", "n", "g">>

\* Names the normalizer is applied to: a run of "a" of a length around the
\* cap, followed by every word of at most MaxSuffix characters.
MaxSuffix == 3
PadLengths == {0, MaxNameLen - 2, MaxNameLen - 1, MaxNameLen}
Pad(n) == [i \in 1..n |-> "a"]
Words == UNION {[1..n -> Alphabet] : n \in 0..MaxSuffix}
NameInputs == {Pad(n) \o w : n \in PadLengths, w \in Words}

\* normalizeChannelName(name) is called, and then called on what it returned.
Normalize ==
  /\ applied = 0
  /\ normalized' = normalizeChannelName(rawName)
  /\ applied' = 1
  /\ UNCHANGED <<rawName, botVars>>

Renormalize ==
  /\ applied = 1
  /\ normalized' = normalizeChannelName(normalized)
  /\ applied' = 2
  /\ UNCHANGED <<rawName, botVars>>

-----------------------------------------------------------------------------
(* Specification *)

InitialFiles ==
  {[status |-> "missing", doc |-> EmptyMap],
   [status |-> "corrupt", doc |-> EmptyMap],
   [status |-> "ok", doc |-> EmptyMap]}

Init ==
  /\ file \in InitialFiles
  /\ runs = 0
  /\ pc = [p \in ProcIds |-> "idle"]
  /\ inter = [p \in ProcIds |-> NoInteraction]
  /\ runNo = [p \in ProcIds |-> 0]
  /\ state = [p \in ProcIds |-> EmptyMap]
  /\ loaded = [p \in ProcIds |-> EmptyMap]
  /\ pos = [p \in ProcIds |-> NoPos]
  /\ category = [p \in ProcIds |-> NoId]
  /\ nid = [p \in ProcIds |-> 0]
  /\ calls = [p \in ProcIds |-> <<>>]
  /\ replies = [p \in ProcIds |-> <<>>]
  /\ err = [p \in ProcIds |-> ""]
  /\ result = [p \in ProcIds |-> NoResult]
  /\ pend = [p \in ProcIds |-> NoPlan]
  /\ remote = {}
  /\ escaped = [p \in ProcIds |-> FALSE]
  /\ rawName = <<>>
  /\ normalized = <<>>
  /\ applied = 0

Step(p) ==
  \/ Receive(p)
  \/ Refuse(p)
  \/ ReplyFails(p)
  \/ BuildBegin(p)
  \/ RoleCreate(p)
  \/ Reposition(p)
  \/ CategoryCreate(p)
  \/ ChannelCreate(p)
  \/ ChannelFetch(p)
  \/ MessageSend(p)
  \/ EditBegin(p)
  \/ Mutate(p)
  \/ FollowUpOk(p)
  \/ FollowUpErr(p)

\* The handlers run one interaction after the other.
Next == \E p \in SeqProcs : Step(p)

Spec == Init /\ [][Next]_vars

\* The normalizer applied to each of NameInputs; the bot stays idle.
InitNormalizer ==
  /\ file = [status |-> "missing", doc |-> EmptyMap]
  /\ runs = 0
  /\ pc = [p \in ProcIds |-> "idle"]
  /\ inter = [p \in ProcIds |-> NoInteraction]
  /\ runNo = [p \in ProcIds |-> 0]
  /\ state = [p \in ProcIds |-> EmptyMap]
  /\ loaded = [p \in ProcIds |-> EmptyMap]
  /\ pos = [p \in ProcIds |-> NoPos]
  /\ category = [p \in ProcIds |-> NoId]
  /\ nid = [p \in ProcIds |-> 0]
  /\ calls = [p \in ProcIds |-> <<>>]
  /\ replies = [p \in ProcIds |-> <<>>]
  /\ err = [p \in ProcIds |-> ""]
  /\ result = [p \in ProcIds |-> NoResult]
  /\ pend = [p \in ProcIds |-> NoPlan]
  /\ remote = {}
  /\ escaped = [p \in ProcIds |-> FALSE]
  /\ rawName \in NameInputs
  /\ normalized = <<>>
  /\ applied = 0

NextNormalizer == Normalize \/ Renormalize

SpecNormalizer == InitNormalizer /\ [][NextNormalizer]_vars

\* Overlapping handlers: the event loop resumes any suspended handler, so
\* the steps of two interactions interleave at their awaits.  The
\* interactions are drawn from a part of the inputs of Spec.
OverlapBuilds ==
  {Interaction("build", TRUE, "g1", opt, <<>>, NoMe) : opt \in {"dup", "extra"}}
    \cup {Interaction("build", TRUE, "g2", "extra", <<>>, NoMe)}

OverlapEdits ==
  {Interaction("edit", TRUE, "g1", "", text, [present |-> TRUE, highest |-> 5]) :
     text \in {<<"lock", "channel", "general">>,
               <<"unlock", "channel", "ghost">>,
               <<"CHANGE", "ROLE", "admin", "COLOR", "TO", "#000000">>}}

OverlapRefused == {Interaction("edit", FALSE, "g1", "", <<>>, NoMe)}

OverlapInteractions == OverlapBuilds \cup OverlapEdits \cup OverlapRefused

ReceiveOverlap(p) == ReceiveOf(p, OverlapInteractions)

RefuseOverlap(p) == RefuseOf(p, OverlapInteractions)

StepOverlap(p) ==
  \/ ReceiveOverlap(p)
  \/ RefuseOverlap(p)
  \/ ReplyFails(p)
  \/ BuildBegin(p)
  \/ RoleCreate(p)
  \/ Reposition(p)
  \/ CategoryCreate(p)
  \/ ChannelCreate(p)
  \/ ChannelFetch(p)
  \/ MessageSend(p)
  \/ EditBegin(p)
  \/ Mutate(p)
  \/ FollowUpOk(p)
  \/ FollowUpErr(p)

NextOverlap == \E p \in ProcIds : StepOverlap(p)

SpecOverlap == Init /\ [][NextOverlap]_vars

-----------------------------------------------------------------------------
(* Vocabulary of the properties *)

\* Handler p holds the record of a /build (an /edit) that passed the guards.
BuildRun(p) ==
  runNo[p] > 0 /\ inter[p].commandName = "build" /\ inter[p].admin /\ inter[p].guild # ""

EditRun(p) ==
  runNo[p] > 0 /\ inter[p].commandName = "edit" /\ inter[p].admin /\ inter[p].guild # ""

\* A build whose template file exists (only such a build has a blueprint).
TemplateRun(p) == BuildRun(p) /\ TemplateIdOf(inter[p]) \in DOMAIN Templates

IsMessageCall(c) == c.op \in {"channels.fetch", "channel.send"}
IsFatalFailure(c) ==
  c.res = "error" /\ c.op \in {"roles.create", "channels.create", "channel.send"}
NoFatalFailure(L) == \A i \in 1..Len(L) : ~IsFatalFailure(L[i])

\* The creation calls a blueprint asks for, in the order it declares them.
RECURSIVE CategorySchedule(_, _)
CategorySchedule(t, c) ==
  IF c > Len(t.categories) THEN <<>>
  ELSE <<<<"channels.create", <<c>>>>>>
         \o [h \in 1..Len(t.categories[c].channels) |-> <<"channels.create", <<c, h>>>>]
         \o CategorySchedule(t, c + 1)

Schedule(t) ==
  [i \in 1..Len(t.roles) |-> <<"roles.create", <<i>>>>]
    \o <<<<"roles.setPositions", <<>>>>>>
    \o CategorySchedule(t, 1)

CreationCalls(L) == SelectSeq(L, LAMBDA c : ~IsMessageCall(c))

\* Every creation call of the blueprint was issued and (the reposition
\* request aside) succeeded.
AllCreated(t, L) ==
  /\ Len(CreationCalls(L)) = Len(Schedule(t))
  /\ \A i \in 1..Len(CreationCalls(L)) :
       CreationCalls(L)[i].op # "roles.setPositions" => CreationCalls(L)[i].res = "ok"

LastReply(p) == replies[p][Len(replies[p])]

\* The store holds exactly the document the build assembled.
Persisted(p) == file.status = "ok" /\ file.doc = state[p]

-----------------------------------------------------------------------------
(* C1 *)

\* The channel exists on the platform, created as a text channel under a
\* category that was itself created.
CreatedUnderCategory(id) ==
  \E ch \in remote :
    /\ ch.id = id /\ ch.type = "text"
    /\ \E cat \in remote : cat.id = ch.parent /\ cat.type = "category"

OrderedLog(t, L) ==
  \* creation calls first, message calls last
  /\ \A i, j \in 1..Len(L) : (i < j /\ IsMessageCall(L[i])) => IsMessageCall(L[j])
  \* the creation calls are a prefix of the blueprint's schedule
  /\ Len(CreationCalls(L)) <= Len(Schedule(t))
  /\ \A i \in 1..Len(CreationCalls(L)) : <<L[i].op, L[i].at>> = Schedule(t)[i]
  \* the message phase starts only when everything was created
  /\ (\E i \in 1..Len(L) : IsMessageCall(L[i])) => AllCreated(t, L)
  \* messages are handled in declared order, each send right after its fetch
  /\ \A i, j \in 1..Len(L) :
       (i < j /\ IsMessageCall(L[i])) => L[i].at[1] <= L[j].at[1]
  /\ \A j \in 1..Len(L) :
       L[j].op = "channel.send" =>
         /\ j > 1 /\ L[j - 1].op = "channels.fetch" /\ L[j - 1].at = L[j].at
         /\ L[j - 1].res = "text" /\ L[j - 1].id = L[j].arg.channel
         /\ CreatedUnderCategory(L[j].arg.channel)

\* C1: in every build the remote calls are issued in the order roles (as
\* declared), one reposition request, each category followed by its channels
\* (as declared), then the messages; a message is sent only to a channel
\* whose creation, and whose category's creation, succeeded before.
C1_CallOrder ==
  \A p \in ProcIds :
    /\ BuildRun(p) /\ ~TemplateRun(p) => calls[p] = <<>>
    /\ TemplateRun(p) => OrderedLog(TemplateOf(p), calls[p])

\* A build of the standard template ran through and sent both its messages.
C1_Witness ==
  \E p \in ProcIds :
    /\ TemplateRun(p) /\ TemplateIdOf(inter[p]) = DefaultTemplateId /\ pc[p] = "idle"
    /\ result[p].ok
    /\ Cardinality({i \in 1..Len(calls[p]) :
                      calls[p][i].op = "channel.send" /\ calls[p][i].res = "ok"}) = 2

-----------------------------------------------------------------------------
(* C2 *)

\* C2: a failed role, category or channel creation, or a failed message
\* send, is the last remote call of its build, and its error is what the
\* caller of the build catches and reports.
C2_FailureAborts ==
  \A p \in ProcIds :
    BuildRun(p) =>
      \A i \in 1..Len(calls[p]) :
        IsFatalFailure(calls[p][i]) =>
          /\ i = Len(calls[p])
          /\ pc[p] \in {"followUpErr", "idle"}
          /\ err[p] = ErrorOf(calls[p][i].op)
          /\ result[p] = NoResult
          /\ pc[p] = "idle" =>
               LastReply(p).content = <<"Build failed", ErrorOf(calls[p][i].op)>>

\* A build was aborted by the failed creation of a channel and reported it.
C2_Witness ==
  \E p \in ProcIds :
    /\ BuildRun(p) /\ pc[p] = "idle" /\ Len(calls[p]) > 0
    /\ IsFatalFailure(calls[p][Len(calls[p])])
    /\ Len(calls[p][Len(calls[p])].at) = 2

-----------------------------------------------------------------------------
(* C3 *)

Aborted(p) ==
  /\ BuildRun(p) /\ Len(calls[p]) > 0 /\ IsFatalFailure(calls[p][Len(calls[p])])
  /\ pc[p] \in {"followUpErr", "idle"}

\* Every key of map m is in the stored map of the same workspace, same id.
StoredIn(m, gid, kind) ==
  /\ file.status = "ok"
  /\ gid \in DOMAIN file.doc
  /\ \A k \in DOMAIN m : k \in DOMAIN file.doc[gid][kind] /\ file.doc[gid][kind][k] = m[k]

\* C3: after a build aborted on a failed remote call, every key-to-id
\* mapping it recorded before the failure is in the persisted store.
C3_PartialProgressPersisted ==
  \A p \in ProcIds :
    Aborted(p) =>
      LET g == inter[p].guild
      IN /\ state[p][g].roles # EmptyMap => StoredIn(state[p][g].roles, g, "roles")
         /\ state[p][g].categories # EmptyMap => StoredIn(state[p][g].categories, g, "categories")
         /\ state[p][g].channels # EmptyMap => StoredIn(state[p][g].channels, g, "channels")

-----------------------------------------------------------------------------
(* C4 *)

RepositionFailed(L) ==
  \E i \in 1..Len(L) : L[i].op = "roles.setPositions" /\ L[i].res = "error"

\* The build returned its template to the handler.
Returned(p) == result[p].ok /\ pc[p] \in {"followUpOk", "followUpErr", "idle"}

\* Every message whose channel was fetched as a text channel and whose type
\* is embed or text was sent.
MessagesSent(t, L) ==
  \A i \in 1..Len(L) :
    (L[i].op = "channels.fetch" /\ L[i].res = "text"
       /\ t.messages[L[i].at[1]].type \in {"embed", "text"}) =>
      /\ i < Len(L) /\ L[i + 1].op = "channel.send" /\ L[i + 1].at = L[i].at
      /\ L[i + 1].res = "ok"

\* C4: a failed reposition request does not abort the build: its error never
\* reaches the handler, the build goes on with the first category, and unless
\* another call fails it creates every category and channel, sends the
\* messages, persists the store and returns.
C4_RepositionNonFatal ==
  \A p \in ProcIds :
    (TemplateRun(p) /\ RepositionFailed(calls[p])) =>
      LET t == TemplateOf(p)
          L == calls[p]
      IN /\ err[p] # ErrorOf("roles.setPositions")
         /\ (L[Len(L)].op = "roles.setPositions" /\ Len(t.categories) > 0) => pc[p] = "cat"
         /\ (NoFatalFailure(L) /\ pc[p] \in {"followUpOk", "followUpErr", "idle"}) =>
              /\ Returned(p)
              /\ AllCreated(t, L)
              /\ MessagesSent(t, L)
              /\ Persisted(p)

\* A build whose reposition request failed completed and sent a message.
C4_Witness ==
  \E p \in ProcIds :
    /\ TemplateRun(p) /\ RepositionFailed(calls[p]) /\ pc[p] = "idle" /\ result[p].ok
    /\ \E i \in 1..Len(calls[p]) : calls[p][i].op = "channel.send" /\ calls[p][i].res = "ok"
    /\ Persisted(p)

-----------------------------------------------------------------------------
(* C5 *)

CallsFor(L, op, m) == {i \in 1..Len(L) : L[i].op = op /\ L[i].at = <<m>>}

\* Message m was skipped after its channel was fetched: the fetch failed or
\* returned a channel that is not text based.
SkippedAtFetch(L, m) ==
  \E i \in CallsFor(L, "channels.fetch", m) : L[i].res \in {"error", "notText"}

\* C5: a message whose channelKey is not in the workspace's channel mapping
\* causes no remote call at all; one whose channel cannot be fetched or is not
\* text based causes no send; neither raises an error, the build goes on with
\* a later message or returns, and a build that returns has persisted the store.
C5_SilentSkip ==
  \A p \in ProcIds :
    TemplateRun(p) =>
      LET t == TemplateOf(p)
          L == calls[p]
          g == inter[p].guild
      IN /\ err[p] # ErrorOf("channels.fetch")
         /\ \A m \in 1..Len(t.messages) :
              /\ (state[p] # EmptyMap /\ t.messages[m].channelKey \notin DOMAIN state[p][g].channels) =>
                   /\ CallsFor(L, "channels.fetch", m) = {}
                   /\ CallsFor(L, "channel.send", m) = {}
                   /\ pc[p] \in {"fetch", "send"} => pos[p].m # m
              /\ SkippedAtFetch(L, m) =>
                   /\ CallsFor(L, "channel.send", m) = {}
                   /\ L[Len(L)].at = <<m>> =>
                        \/ pc[p] = "fetch" /\ pos[p].m > m
                        \/ Returned(p)
         /\ Returned(p) => Persisted(p)

\* A build of the standard template returned although the channel of its
\* first message was not text based, the key of its second was unmapped and
\* the channel of its third could not be fetched.
C5_Witness ==
  \E p \in ProcIds :
    /\ TemplateRun(p) /\ TemplateIdOf(inter[p]) = DefaultTemplateId
    /\ pc[p] = "idle" /\ result[p].ok /\ Persisted(p)
    /\ \E i \in CallsFor(calls[p], "channels.fetch", 1) : calls[p][i].res = "notText"
    /\ \E i \in CallsFor(calls[p], "channels.fetch", 3) : calls[p][i].res = "error"
    /\ \A i \in 1..Len(calls[p]) : calls[p][i].op # "channel.send"

-----------------------------------------------------------------------------
(* C6 *)

RoleKeys(t) == {t.roles[i].key : i \in 1..Len(t.roles)}
LastWithKey(t, k) == Least({0 - i : i \in {j \in 1..Len(t.roles) : t.roles[j].key = k}})

\* C6: when a build returned, each role key of the blueprint, also one that
\* two RoleSpecs share, has one mapping in the store and it holds the id of
\* the role created for the last RoleSpec with that key.
C6_LaterKeyWins ==
  \A p \in ProcIds :
    (TemplateRun(p) /\ Returned(p)) =>
      LET t == TemplateOf(p)
          stored == file.doc[inter[p].guild].roles
      IN /\ \A k \in RoleKeys(t) :
              /\ k \in DOMAIN stored
              /\ calls[p][0 - LastWithKey(t, k)].op = "roles.create"
              /\ stored[k] = calls[p][0 - LastWithKey(t, k)].id
         /\ Cardinality({k \in DOMAIN stored : stored[k][1] = runNo[p]})
              = Cardinality(RoleKeys(t))

\* A build of the template that declares key r1 twice returned.
C6_Witness ==
  \E p \in ProcIds :
    /\ TemplateRun(p) /\ TemplateIdOf(inter[p]) = "dup" /\ Returned(p) /\ pc[p] = "idle"
    /\ file.doc[inter[p].guild].roles["r1"] = calls[p][2].id
    /\ calls[p][1].id # calls[p][2].id

-----------------------------------------------------------------------------
(* C7 *)

CategoryKeys(t) == {t.categories[c].key : c \in 1..Len(t.categories)}
ChannelKeys(t) ==
  UNION {{t.categories[c].channels[h].key : h \in 1..Len(t.categories[c].channels)} :
           c \in 1..Len(t.categories)}

\* Map `new` is map `old` with exactly the declared keys remapped to ids
\* created in run r.
Merged(old, new, declared, r) ==
  /\ DOMAIN new = (DOMAIN old) \cup declared
  /\ \A k \in (DOMAIN old) \ declared : new[k] = old[k]
  /\ \A k \in declared : new[k][1] = r

OldGuildState(p) ==
  IF inter[p].guild \in DOMAIN loaded[p] THEN loaded[p][inter[p].guild] ELSE EmptyGuildState

\* C7: after a build for workspace W that ran on its own returned, the store
\* holds for W every earlier key the blueprint does not redeclare with its old
\* id and every blueprint key with an id created in this run, and the entry of
\* every other workspace is as it was.
C7_MergeFrame ==
  \A p \in ProcIds :
    (TemplateRun(p) /\ Returned(p)) =>
      LET t == TemplateOf(p)
          g == inter[p].guild
          old == OldGuildState(p)
      IN /\ file.status = "ok"
         /\ DOMAIN file.doc = (DOMAIN loaded[p]) \cup {g}
         /\ \A w \in (DOMAIN loaded[p]) \ {g} : file.doc[w] = loaded[p][w]
         /\ Merged(old.roles, file.doc[g].roles, RoleKeys(t), runNo[p])
         /\ Merged(old.categories, file.doc[g].categories, CategoryKeys(t), runNo[p])
         /\ Merged(old.channels, file.doc[g].channels, ChannelKeys(t), runNo[p])

\* A build returned for a workspace that already had mappings, some of them
\* redeclared by the blueprint and some not.
C7_Witness ==
  \E p \in ProcIds :
    /\ TemplateRun(p) /\ Returned(p) /\ pc[p] = "idle"
    /\ inter[p].guild \in DOMAIN loaded[p]
    /\ (DOMAIN OldGuildState(p).channels) \ ChannelKeys(TemplateOf(p)) # {}
    /\ (DOMAIN OldGuildState(p).channels) \cap ChannelKeys(TemplateOf(p)) # {}

-----------------------------------------------------------------------------
(* C8 *)

\* runEditCommand has been called for the edit handler p holds: the
\* acknowledging reply before the call has resolved.
EditRan(p) == EditRun(p) /\ replies[p] # <<>> /\ replies[p][1].ok

EditOf(p) == ParseEdit(inter[p].command)

RolesNamed(g, name) == {i \in 1..Len(g.roles) : LowerAll(g.roles[i].name) = LowerAll(name)}

\* The edit is a recolor with a recognised colour of an existing role whose
\* position is at or above the position of the bot's highest role.
RecolorAtOrAbove(p) ==
  LET g == GuildObject(inter[p].guild)
      e == EditOf(p)
  IN /\ EditRan(p)
     /\ e.kind = "color"
     /\ normalizeColor(e.b).ok
     /\ RolesNamed(g, e.a) # {}
     /\ g.roles[Least(RolesNamed(g, e.a))].position >= inter[p].me.highest

NoMutation(p) == calls[p] = <<>> /\ pc[p] # "mutate"

\* C8 as claimed: a recolor of a role at or above the bot's highest role is
\* refused without a mutation call, whatever the state of the bot's member
\* record.
C8_GuardAlways ==
  \A p \in ProcIds : RecolorAtOrAbove(p) => (result[p].kind = "Guarded" /\ NoMutation(p))

\* C8 amended: the recolor is refused without a mutation call when the bot's
\* member record is available; when it is not, the guard is skipped and the
\* recolor call is issued.
C8_GuardWhenMemberKnown ==
  \A p \in ProcIds :
    RecolorAtOrAbove(p) =>
      IF inter[p].me.present
      THEN result[p].kind = "Guarded" /\ ~result[p].ok /\ NoMutation(p)
      ELSE /\ result[p].kind # "Guarded"
           /\ pc[p] = "mutate" \/ (Len(calls[p]) = 1 /\ calls[p][1].op = "role.setColor")

\* A recolor of the role at the bot's own position was refused.
C8_Witness ==
  \E p \in ProcIds :
    /\ RecolorAtOrAbove(p) /\ inter[p].me.present /\ pc[p] = "idle"
    /\ GuildObject(inter[p].guild).roles[Least(RolesNamed(GuildObject(inter[p].guild), EditOf(p).a))].position
         = inter[p].me.highest
    /\ result[p].kind = "Guarded"
    /\ LastReply(p).content = <<"I can't edit that role">>

-----------------------------------------------------------------------------
(* C9 *)

RequiredTypes(kind) ==
  CASE kind = "renameChannel" -> {"text", "announcement"}
    [] kind \in {"renameCategory", "createChannel"} -> {"category"}
    [] kind \in {"lock", "unlock"} -> {"text"}
    [] OTHER -> {}

\* The edit is of a kind runEditCommand knows and nothing of the type the
\* kind requires bears the given name, compared case-insensitively.
TargetMissing(p) ==
  LET g == GuildObject(inter[p].guild)
      e == EditOf(p)
      name == IF e.kind = "createChannel" THEN e.b ELSE e.a
  IN /\ EditRan(p)
     /\ e.kind # "none"
     /\ IF e.kind = "color" THEN RolesNamed(g, name) = {}
        ELSE \A i \in 1..Len(g.channels) :
               g.channels[i].type \in RequiredTypes(e.kind) =>
                 LowerAll(g.channels[i].name) # LowerAll(name)

ColorRejected(p) == EditOf(p).kind = "color" /\ ~normalizeColor(EditOf(p).b).ok

\* C9 as claimed: for every edit kind, a target that matches nothing yields a
\* not-found outcome and no mutation call.
C9_MissingIsNotFound ==
  \A p \in ProcIds : TargetMissing(p) => (result[p].kind = "NotFound" /\ NoMutation(p))

\* C9 amended: for every edit kind of runEditCommand, a target that matches
\* nothing yields no mutation call and a not-found outcome, except that a
\* recolor with an unrecognised colour is turned away as an unknown colour
\* before the role is looked up.
C9_MissingIsNotFoundUnlessColor ==
  \A p \in ProcIds :
    TargetMissing(p) =>
      /\ NoMutation(p)
      /\ ~result[p].ok
      /\ result[p].kind = IF ColorRejected(p) THEN "UnknownColor" ELSE "NotFound"

\* A lock of a channel that exists only as an announcement channel, which the
\* lock edit does not accept, ended as not found.
C9_Witness ==
  \E p \in ProcIds :
    /\ TargetMissing(p) /\ EditOf(p).kind = "lock" /\ pc[p] = "idle"
    /\ \E i \in 1..Len(GuildObject(inter[p].guild).channels) :
         LowerAll(GuildObject(inter[p].guild).channels[i].name) = LowerAll(EditOf(p).a)
    /\ result[p].kind = "NotFound"
    /\ LastReply(p).content[1] = "Channel not found"

-----------------------------------------------------------------------------
(* C10 *)

MutationFailed(p) ==
  EditRun(p) /\ \E i \in 1..Len(calls[p]) : calls[p][i].res = "error"

-----------------------------------------------------------------------------
(* C11 *)

\* runEditCommand has returned or thrown for the edit handler p holds.
EngineDone(p) == EditRan(p) /\ pc[p] \notin {"ack", "mutate"}

\* The edit is of a known kind, names an existing target and is neither
\* turned away for its colour nor refused by the hierarchy guard.
Executable(p) ==
  /\ EditRan(p)
  /\ EditOf(p).kind # "none"
  /\ ~TargetMissing(p)
  /\ ~ColorRejected(p)
  /\ ~(RecolorAtOrAbove(p) /\ inter[p].me.present)

\* The edit of handler p ended without its mutation succeeding: not found,
\* refused by the guard, or its mutation call failed.
EndedUnapplied(p) ==
  /\ EngineDone(p)
  /\ result[p].kind \in {"NotFound", "Guarded"} \/ MutationFailed(p)

-----------------------------------------------------------------------------
(* C12 *)

SupportedVerbs ==
  {<<"change", "role">>, <<"rename", "channel">>, <<"rename", "category">>,
   <<"create", "channel">>, <<"lock", "channel">>, <<"unlock", "channel">>}

\* The command of the edit handler p holds does not open with the words of
\* any supported kind (such as "rename role ..." or "slowmode ...").
UnsupportedKind(p) ==
  /\ EditRan(p)
  /\ \/ Len(inter[p].command) < 2
     \/ LowerAll(SubSeq(inter[p].command, 1, 2)) \notin SupportedVerbs

\* C12: an edit of no supported kind gets the explicit "I didn't understand"
\* failure outcome, which the handler passes on to the user, and no remote
\* call is issued for it.
C12_UnknownIsExplicit ==
  \A p \in ProcIds :
    UnsupportedKind(p) =>
      /\ result[p] = Result(FALSE, "Unknown", <<"I didn't understand">>)
      /\ NoMutation(p)
      /\ pc[p] = "followUpOk"
           \/ (Len(replies[p]) >= 2 /\ replies[p][2].via = "followUp"
               /\ replies[p][2].content = <<"I didn't understand">>)

\* A "rename role" command was answered with the unknown-action outcome.
C12_Witness ==
  \E p \in ProcIds :
    /\ UnsupportedKind(p) /\ pc[p] = "idle"
    /\ LowerAll(SubSeq(inter[p].command, 1, 2)) = <<"rename", "role">>
    /\ result[p].kind = "Unknown" /\ calls[p] = <<>>
    /\ LastReply(p).ok /\ LastReply(p).content = <<"I didn't understand">>

-----------------------------------------------------------------------------
(* C13 *)

\* Empty, or dash-separated runs of [a-z0-9]: ^[a-z0-9]+(-[a-z0-9]+)*$
WellFormed(s) ==
  \/ s = <<>>
  \/ /\ \A i \in 1..Len(s) : s[i] \in Letters \cup Digits \cup {Dash}
     /\ s[1] # Dash
     /\ s[Len(s)] # Dash
     /\ \A i \in 1..(Len(s) - 1) : ~(s[i] = Dash /\ s[i + 1] = Dash)

\* C13: the result of normalizeChannelName is empty or well formed and at most
\* MaxNameLen long, and applying normalizeChannelName to its own result
\* returns that result unchanged, also for names longer than the cap.
C13_NormalizeIdempotent ==
  /\ applied >= 1 => (WellFormed(normalized) /\ Len(normalized) <= MaxNameLen)
  /\ applied = 2 => normalized = normalizeChannelName(rawName)

-----------------------------------------------------------------------------
(* C14 *)

\* The calls of log L that create a channel (not a category).
ChannelCreations(L) ==
  {i \in 1..Len(L) : L[i].op = "channels.create" /\ Len(L[i].at) = 2}

\* C14: every channel-creation call of a build carries the normalized form of
\* the name its ChannelSpec declares.
C14_CreatedNamesNormalized ==
  \A p \in ProcIds :
    BuildRun(p) =>
      \A i \in ChannelCreations(calls[p]) :
        LET ch == TemplateOf(p).categories[calls[p][i].at[1]].channels[calls[p][i].at[2]]
        IN /\ Characters(calls[p][i].arg.name) = normalizeChannelName(Characters(ch.name))
           /\ WellFormed(Characters(calls[p][i].arg.name))

-----------------------------------------------------------------------------
(* C15 *)

DefinedPacks == {"owner", "admin", "mod", "helper", "verified", "member", "ping"}

\* C15: a role whose RoleSpec names a pack outside the defined packs is
\* created with the empty permission set.
C15_UnknownPackIsEmpty ==
  \A p \in ProcIds :
    BuildRun(p) =>
      \A i \in 1..Len(calls[p]) :
        (/\ calls[p][i].op = "roles.create"
         /\ TemplateOf(p).roles[calls[p][i].at[1]].permPack \notin DefinedPacks)
          => calls[p][i].arg.permissions = <<>>

-----------------------------------------------------------------------------
(* C16 *)

\* The calls of log L that create a category.
CategoryCreations(L) ==
  {i \in 1..Len(L) : L[i].op = "channels.create" /\ Len(L[i].at) = 1}

\* The OverrideSpecs of category cat that name neither "@everyone" nor a role
\* key mapped in roleMap.
Unresolvable(cat, roleMap) ==
  {k \in 1..Len(cat.overwrites) :
     cat.overwrites[k].target # "@everyone"
       /\ cat.overwrites[k].targetRoleKey \notin DOMAIN roleMap}

Names(s) == {s[i] : i \in 1..Len(s)}

\* C16: a category is created with no override record for an OverrideSpec
\* that names neither "@everyone" nor a mapped role key, and the records it
\* is created with carry recognized permission names only.
C16_UnresolvableOverrideDropped ==
  \A p \in ProcIds :
    BuildRun(p) =>
      \A i \in CategoryCreations(calls[p]) :
        LET cat == TemplateOf(p).categories[calls[p][i].at[1]]
            roleMap == state[p][inter[p].guild].roles
            recs == calls[p][i].arg.permissionOverwrites
        IN /\ Len(recs) <= Len(cat.overwrites) - Cardinality(Unresolvable(cat, roleMap))
           /\ \A k \in 1..Len(recs) : Names(recs[k].allow) \cup Names(recs[k].deny) \subseteq Flags

-----------------------------------------------------------------------------
(* C17 *)

EveryoneTargets(cat) ==
  {k \in 1..Len(cat.overwrites) : cat.overwrites[k].target = "@everyone"}

\* C17: every OverrideSpec that names "@everyone", with or without a role key
\* beside it, yields an override record for the everyone group.
C17_EveryoneWins ==
  \A p \in ProcIds :
    BuildRun(p) =>
      \A i \in CategoryCreations(calls[p]) :
        LET cat == TemplateOf(p).categories[calls[p][i].at[1]]
            recs == calls[p][i].arg.permissionOverwrites
            everyone == GuildObject(inter[p].guild).everyone
        IN Cardinality({k \in 1..Len(recs) : recs[k].id = everyone})
             = Cardinality(EveryoneTargets(cat))

-----------------------------------------------------------------------------
(* C18 *)

\* Handler p holds a build of an existing template that has got past the
\* acknowledging reply, so buildFromTemplate has read the state file.
BuildStarted(p) ==
  /\ BuildRun(p)
  /\ TemplateExists(TemplateIdOf(inter[p]))
  /\ replies[p] # <<>> /\ replies[p][1].ok

\* This step is the one in which handler p's build reads the state file.
ReadsStore(p) == pc[p] = "ack" /\ BuildStarted(p)'

\* C18: no step changes a state file that is unreadable or corrupt, and a
\* build that finds it so fails with an error without having issued a remote
\* call; a build that finds the file missing creates it as an empty document
\* and goes on to its first remote call.
C18_CorruptFatalMissingCreated ==
  [][ /\ file.status = "corrupt" =>
           /\ file' = file
           /\ \A p \in ProcIds :
                BuildStarted(p)' =>
                  /\ calls'[p] = <<>>
                  /\ err'[p] # ""
                  /\ result'[p] = NoResult
                  /\ pc'[p] \in {"followUpErr", "idle"}
      /\ \A p \in ProcIds :
           (file.status = "missing" /\ ReadsStore(p)) =>
             /\ file' = [status |-> "ok", doc |-> EmptyMap]
             /\ err'[p] = ""
             /\ pc'[p] \in {"role", "repos"}
    ]_vars

\* A build that found the state file corrupt has failed and reported it.
C18_Witness ==
  \E p \in ProcIds :
    /\ file.status = "corrupt"
    /\ BuildStarted(p) /\ pc[p] = "idle"
    /\ calls[p] = <<>>
    /\ LastReply(p).content = <<"Build failed", "Unexpected token in JSON">>

-----------------------------------------------------------------------------
(* C19 *)

\* This step is the one in which handler p's build returns, having written
\* the state file.
WritesStore(p) ==
  /\ BuildRun(p)
  /\ pc[p] \notin {"idle", "ack", "followUpOk", "followUpErr"}
  /\ pc'[p] = "followUpOk"

\* C19: however the steps of overlapping builds interleave, a build's write
\* replaces the persisted document by that build's own document, and nothing
\* but a later write changes it (a missing file apart, which is created
\* empty): the final document is the one of the build whose write came last.
C19_LastWriteWins ==
  [][ /\ \A p \in ProcIds : WritesStore(p) => file' = [status |-> "ok", doc |-> state'[p]]
      /\ (\A p \in ProcIds : ~WritesStore(p)) =>
           \/ file' = file
           \/ file.status = "missing" /\ file' = [status |-> "ok", doc |-> EmptyMap]
    ]_vars

\* Two builds for the same workspace that both read the store before either
\* wrote it have finished: the store holds the document of one of them and
\* the mappings of the other are not in it.
C19_Witness ==
  \E p, q \in ProcIds :
    /\ p # q
    /\ BuildRun(p) /\ BuildRun(q) /\ inter[p].guild = inter[q].guild
    /\ pc[p] = "idle" /\ pc[q] = "idle"
    /\ result[p].ok /\ result[q].ok
    /\ loaded[p] = loaded[q]
    /\ file.doc = state[q]
    /\ state[p] # state[q]

-----------------------------------------------------------------------------
(* C20 *)

\* The final responses (follow-ups) of handler p that reached the caller.
Delivered(p) ==
  {i \in 1..Len(replies[p]) : replies[p][i].via = "followUp" /\ replies[p][i].ok}

\* C20: a handler that has finished an accepted /build or /edit has delivered
\* exactly one final response, the success message or the error message, and
\* no exception has left it, whichever remote or response call failed.
C20_OneResponseNoEscape ==
  \A p \in ProcIds :
    ((BuildRun(p) \/ EditRun(p)) /\ pc[p] = "idle") =>
      /\ ~escaped[p]
      /\ Cardinality(Delivered(p)) = 1
      /\ LastReply(p).content = result[p].message
           \/ LastReply(p).content = <<FailurePrefix(inter[p]), err[p]>>

-----------------------------------------------------------------------------
(* C21 *)

\* The terminal outcome of the edit handler p holds: Failed when its
\* mutation call was rejected, otherwise the kind of the value returned.
Outcome(p) == IF MutationFailed(p) THEN "Failed" ELSE result[p].kind

\* The edit of handler p is of a kind runEditCommand knows and has ended.
KnownEditEnded(p) == EngineDone(p) /\ EditOf(p).kind # "none"

\* C21 as claimed: an edit of a known kind ends in exactly one of NotFound,
\* Guarded, Applied and Failed, having issued at most one mutation call.
C21_FourOutcomes ==
  \A p \in ProcIds :
    KnownEditEnded(p) =>
      /\ Outcome(p) \in {"NotFound", "Guarded", "Applied", "Failed"}
      /\ Len(calls[p]) <= 1

\* C21 amended: an edit of a known kind ends in exactly one of NotFound,
\* Guarded, Applied, Failed and, for a recolor with an unrecognised colour,
\* UnknownColor; only Applied and Failed come with a mutation call, exactly
\* one; once the edit has ended no further call is issued and its outcome
\* does not change.
C21_OneTerminalOutcome ==
  [][ \A p \in ProcIds :
        /\ KnownEditEnded(p)' =>
             /\ Outcome(p)' \in {"NotFound", "Guarded", "Applied", "Failed", "UnknownColor"}
             /\ Outcome(p)' = "UnknownColor" <=> ColorRejected(p)'
             /\ Len(calls'[p]) = IF Outcome(p)' \in {"Applied", "Failed"} THEN 1 ELSE 0
             /\ Outcome(p)' = "Applied" => calls'[p][1].res = "ok"
        /\ (KnownEditEnded(p) /\ runNo'[p] = runNo[p]) =>
             /\ calls'[p] = calls[p]
             /\ Outcome(p)' = Outcome(p)
    ]_vars

\* A recolor whose mutation call was rejected has ended as failed after that
\* one call.
C21_Witness ==
  \E p \in ProcIds :
    /\ KnownEditEnded(p) /\ pc[p] = "idle"
    /\ EditOf(p).kind = "color"
    /\ Outcome(p) = "Failed"
    /\ Len(calls[p]) = 1 /\ calls[p][1].op = "role.setColor"

-----------------------------------------------------------------------------
(* C22 *)

BuildOps ==
  {"roles.create", "roles.setPositions", "channels.create", "channels.fetch", "channel.send"}

\* The ids the successful calls `op` of log L created at blueprint places ats.
CreatedFor(L, op, ats) ==
  {L[i].id : i \in {j \in 1..Len(L) : L[j].op = op /\ L[j].at \in ats /\ L[j].res = "ok"}}

RolePlaces(t, k) == {<<i>> : i \in {j \in 1..Len(t.roles) : t.roles[j].key = k}}
CategoryPlaces(t, k) == {<<c>> : c \in {d \in 1..Len(t.categories) : t.categories[d].key = k}}
ChannelPlaces(t, k) ==
  UNION {{<<c, h>> : h \in {j \in 1..Len(t.categories[c].channels) :
                              t.categories[c].channels[j].key = k}} :
           c \in 1..Len(t.categories)}

\* Every key the blueprint declares was mapped in the store before the run.
AlreadyMapped(p) ==
  LET t == TemplateOf(p)
      old == OldGuildState(p)
  IN /\ RoleKeys(t) # {} /\ RoleKeys(t) \subseteq DOMAIN old.roles
     /\ CategoryKeys(t) # {} /\ CategoryKeys(t) \subseteq DOMAIN old.categories
     /\ ChannelKeys(t) # {} /\ ChannelKeys(t) \subseteq DOMAIN old.channels

\* C22: a build issues only create, reposition, fetch and send calls (never a
\* delete: what it created stays on the platform), at most one creation call
\* per RoleSpec, CategorySpec and ChannelSpec, each creating a fresh object
\* whether or not the store already maps the key; a build that returned
\* issued exactly one per spec, and the store maps each key of the blueprint
\* to an id created in this run for a spec with that key.
C22_CreatesAnewEveryRun ==
  \A p \in ProcIds :
    TemplateRun(p) =>
      LET t == TemplateOf(p)
          L == calls[p]
          g == inter[p].guild
      IN /\ \A i \in 1..Len(L) : L[i].op \in BuildOps
         /\ \A i, j \in 1..Len(L) :
              (i < j /\ ~IsMessageCall(L[i]) /\ ~IsMessageCall(L[j]))
                => <<L[i].op, L[i].at>> # <<L[j].op, L[j].at>>
         /\ \A i \in 1..Len(L) :
              (L[i].op \in {"roles.create", "channels.create"} /\ L[i].res = "ok") =>
                /\ L[i].id[1] = runNo[p]
                /\ L[i].op = "channels.create" => \E r \in remote : r.id = L[i].id
                /\ \A j \in 1..Len(L) : (j # i /\ L[j].res = "ok") => L[j].id # L[i].id
         /\ Returned(p) =>
              /\ \A s \in 1..Len(Schedule(t)) :
                   Cardinality({i \in 1..Len(L) : <<L[i].op, L[i].at>> = Schedule(t)[s]}) = 1
              /\ file.status = "ok"
              /\ \A k \in RoleKeys(t) :
                   file.doc[g].roles[k] \in CreatedFor(L, "roles.create", RolePlaces(t, k))
              /\ \A k \in CategoryKeys(t) :
                   file.doc[g].categories[k]
                     \in CreatedFor(L, "channels.create", CategoryPlaces(t, k))
              /\ \A k \in ChannelKeys(t) :
                   file.doc[g].channels[k]
                     \in CreatedFor(L, "channels.create", ChannelPlaces(t, k))

\* A build returned for a workspace whose store entry already mapped every
\* key of the blueprint, and a channel key now maps to another id.
C22_Witness ==
  \E p \in ProcIds :
    /\ TemplateRun(p) /\ Returned(p) /\ pc[p] = "idle"
    /\ AlreadyMapped(p)
    /\ \E k \in ChannelKeys(TemplateOf(p)) :
         file.doc[inter[p].guild].channels[k] # OldGuildState(p).channels[k]

-----------------------------------------------------------------------------
(* C23 *)

\* Handler p took the step.
Stepped(p) ==
  <<pc[p], replies[p], calls[p], runNo[p]>>' # <<pc[p], replies[p], calls[p], runNo[p]>>

\* The ids of the roles and channels in the guild's live caches.
CachedIds(g) ==
  {g.roles[i].id : i \in 1..Len(g.roles)} \cup {g.channels[i].id : i \in 1..Len(g.channels)}

\* C23: no step of an /edit handler changes the store file, whatever its
\* condition (missing, corrupt or holding mappings); the handler holds no
\* document read from it, and every call it issues, a create-channel call
\* included, targets an object of the guild's live caches.
C23_EditLeavesStoreAlone ==
  [][ \A p \in ProcIds :
        (EditRun(p)' /\ Stepped(p)) =>
          /\ file' = file
          /\ loaded'[p] = EmptyMap /\ state'[p] = EmptyMap
          /\ \A i \in 1..Len(calls'[p]) :
               calls'[p][i].arg.target \in CachedIds(GuildObject(inter'[p].guild)) ]_vars

\* A create-channel edit was applied while the store held the mappings of an
\* earlier build.
C23_Witness ==
  \E p \in ProcIds :
    /\ EditRun(p) /\ pc[p] = "idle" /\ EditOf(p).kind = "createChannel"
    /\ result[p].ok /\ Len(calls[p]) = 1 /\ calls[p][1].op = "channels.create"
    /\ calls[p][1].res = "ok"
    /\ file.status = "ok" /\ file.doc # EmptyMap

-----------------------------------------------------------------------------
(* C24 *)

\* The entries of the workspaces other than g, where the document has them.
Others(doc, g) == [w \in (DOMAIN doc) \ {g} |-> doc[w]]

\* C24: the write that ends a build for workspace A leaves the persisted
\* entry of every other workspace as it was just before that write, also
\* when a build for another workspace wrote the store after A's build read it.
C24_OtherWorkspacesKept ==
  [][ \A p \in ProcIds :
        (WritesStore(p) /\ file.status = "ok") =>
          Others(file'.doc, inter[p].guild) = Others(file.doc, inter[p].guild) ]_vars

-----------------------------------------------------------------------------
(* C25 *)

\* Handler p holds the record of an interaction whose member lacks the
\* Administrator permission or that came from outside a guild.
RefusedRun(p) == runNo[p] > 0 /\ (~inter[p].admin \/ inter[p].guild = "")

\* C25: the step that handles a /build or /edit from a member without the
\* Administrator permission, or from outside a guild, issues no remote call,
\* attempts exactly one reply, the refusal, ends the handler, and leaves the
\* store file and the platform as they were.
C25_RefusedDoesNothing ==
  [][ \A p \in ProcIds :
        (RefusedRun(p)' /\ Stepped(p)) =>
          /\ calls'[p] = <<>> /\ nid'[p] = 0
          /\ pc'[p] = "idle" /\ ~escaped'[p]
          /\ Len(replies'[p]) = 1
          /\ replies'[p][1].via = "reply"
          /\ replies'[p][1].content = RefusalFor(inter'[p])
          /\ state'[p] = EmptyMap /\ loaded'[p] = EmptyMap
          /\ file' = file /\ remote' = remote ]_vars

\* A /build of a member without the Administrator permission was refused in
\* a guild whose earlier build had left mappings in the store.
C25_Witness ==
  \E p \in ProcIds :
    /\ RefusedRun(p) /\ pc[p] = "idle"
    /\ inter[p].commandName = "build" /\ ~inter[p].admin /\ inter[p].guild = "g1"
    /\ replies[p] # <<>> /\ replies[p][1].ok
    /\ file.status = "ok" /\ "g1" \in DOMAIN file.doc

=============================================================================
